---- MODULE Spec2Model ----
(***************************************************************************)
(* A model of PacProxyAgent (src/src/agent.ts): the resolver cache         *)
(* (loadResolver / loadPacFile) and the per-request dispatch (callback).   *)
(*                                                                         *)
(* JavaScript strings are modelled as sequences of lexical tokens: a word  *)
(* (a maximal run of characters that are neither white space nor one of    *)
(* the delimiters the code looks for), WS (a run of white space) and the   *)
(* delimiter characters themselves.  The string operations of the code     *)
(* (trim, split, filter, indexOf, substring, url.format) are defined on    *)
(* these sequences as the JavaScript operations act on the characters.     *)
(***************************************************************************)
EXTENDS Integers, Sequences, FiniteSets, TLC

(***************************************************************************)
(* Bounds of the model.                                                    *)
(***************************************************************************)
MaxInFlight == 2
MaxRequests == 2

WS == " "
SEMI == ";"
QM == "?"
SLASH == "/"

(***************************************************************************)
(* JavaScript values that are not always strings: t is the typeof tag and  *)
(* v the value's String() form.                                            *)
(***************************************************************************)
JsString(s) == [t |-> "string", v |-> s]
JsNull == [t |-> "null", v |-> <<"null">>]
JsUndefined == [t |-> "undefined", v |-> <<"undefined">>]
JsZero == [t |-> "number", v |-> <<"0">>]
JsFalse == [t |-> "boolean", v |-> <<"false">>]
JsTrue == [t |-> "boolean", v |-> <<"true">>]
JsBool(b) == IF b THEN JsTrue ELSE JsFalse
\* no value yet
NotReturned == [t |-> "pending", v |-> <<>>]

\* a === b
StrictEquals(a, b) == a.t = b.t /\ a.v = b.v

\* x == null in the place of !x
FalsyNullish(x) == x.t \in {"null", "undefined"}

\* !x
Falsy(x) ==
    \/ x.t \in {"null", "undefined"}
    \/ x.t = "string" /\ x.v = <<>>
    \/ x.t = "number" /\ x.v \in {<<"0">>, <<"NaN">>}
    \/ x.t = "boolean" /\ x.v = <<"false">>

\* String(x)
String(x) == x.v

(***************************************************************************)
(* String.prototype.trim, split(/\s*;\s*/g), filter(Boolean), split(/\s+/) *)
(***************************************************************************)
RECURSIVE TrimStart(_)
TrimStart(s) ==
    IF s # <<>> /\ Head(s) = WS THEN TrimStart(Tail(s)) ELSE s

RECURSIVE TrimEnd(_)
TrimEnd(s) ==
    IF s # <<>> /\ s[Len(s)] = WS THEN TrimEnd(SubSeq(s, 1, Len(s) - 1)) ELSE s

Trim(s) == TrimEnd(TrimStart(s))

\* The pieces of s between the occurrences of the token d (always at least one).
RECURSIVE SplitAt(_, _)
SplitAt(s, d) ==
    IF \E i \in 1..Len(s) : s[i] = d
    THEN LET i == CHOOSE j \in 1..Len(s) :
                      s[j] = d /\ \A k \in 1..(j - 1) : s[k] # d
         IN  <<SubSeq(s, 1, i - 1)>> \o SplitAt(SubSeq(s, i + 1, Len(s)), d)
    ELSE <<s>>

\* s.split(/\s*;\s*/g): the separator swallows the white space on both sides
\* of each ';', so a piece loses its trailing white space when a separator
\* follows it and its leading white space when a separator precedes it.
SplitSemi(s) ==
    LET raw == SplitAt(s, SEMI)
        n == Len(raw)
    IN  [i \in 1..n |->
            LET a == IF i > 1 THEN TrimStart(raw[i]) ELSE raw[i]
            IN  IF i < n THEN TrimEnd(a) ELSE a]

\* list.filter(Boolean) on a list of strings: the empty strings are dropped
RECURSIVE FilterBoolean(_)
FilterBoolean(l) ==
    IF l = <<>> THEN <<>>
    ELSE IF Head(l) = <<>> THEN FilterBoolean(Tail(l))
    ELSE <<Head(l)>> \o FilterBoolean(Tail(l))

\* s.split(/\s+/): the pieces between the runs of white space
RECURSIVE SplitWs(_)
SplitWs(s) ==
    IF \E i \in 1..Len(s) : s[i] = WS
    THEN LET i == CHOOSE j \in 1..Len(s) :
                      s[j] = WS /\ \A k \in 1..(j - 1) : s[k] # WS
         IN  <<SubSeq(s, 1, i - 1)>>
                 \o SplitWs(TrimStart(SubSeq(s, i + 1, Len(s))))
    ELSE <<s>>

(***************************************************************************)
(* Objects (option bags, parsed URLs) are functions from a fixed universe  *)
(* of keys to JavaScript values; JsAbsent marks a key the object lacks.    *)
(***************************************************************************)
JsAbsent == [t |-> "absent", v |-> <<>>]
Keys == {"filename", "rejectUnauthorized", "protocol", "slashes", "auth",
         "host", "port", "hostname", "hash", "search", "query", "pathname",
         "path", "href"}
EmptyObject == [k \in Keys |-> JsAbsent]

\* {...a, ...b}: every key b has replaces a's
Spread(a, b) == [k \in Keys |-> IF b[k] # JsAbsent THEN b[k] ELSE a[k]]

\* obj with the listed keys set
With(obj, kv) == [k \in Keys |-> IF k \in DOMAIN kv THEN kv[k] ELSE obj[k]]

\* obj.k: undefined when the object lacks the key
Get(obj, k) == IF obj[k] = JsAbsent THEN JsUndefined ELSE obj[k]

(***************************************************************************)
(* callback, lines 136-157: the `url` parameter of the PAC function.       *)
(***************************************************************************)
HttpsDefaultPort == 443
HttpDefaultPort == 80

\* s.indexOf(c), 0-based, -1 when absent
IndexOf(s, c) ==
    IF \E i \in 1..Len(s) : s[i] = c
    THEN (CHOOSE i \in 1..Len(s) : s[i] = c /\ \A k \in 1..(i - 1) : s[k] # c) - 1
    ELSE -1

Clamp(i, n) == IF i < 0 THEN 0 ELSE IF i > n THEN n ELSE i

\* s.substring(a, b): arguments clamped to 0..length and swapped if a > b
Substring(s, a, b) ==
    LET x == Clamp(a, Len(s))
        y == Clamp(b, Len(s))
        lo == IF x <= y THEN x ELSE y
        hi == IF x <= y THEN y ELSE x
    IN  SubSeq(s, lo + 1, hi)

\* s.substring(a)
SubstringFrom(s, a) == Substring(s, a, Len(s))

\* s.replace(/c/g, r)
ReplaceAll(s, c, r) == [i \in 1..Len(s) |-> IF s[i] = c THEN r ELSE s[i]]

\* url.format of { protocol, hostname, host: null, port, pathname, search }
\* with an http: or https: protocol (both are "slashed" protocols).
Format(protocol, hostname, port, pathname, search) ==
    LET host0 == IF hostname # <<>>
                 THEN hostname \o (IF Falsy(port) THEN <<>>
                                   ELSE <<":">> \o String(port))
                 ELSE <<>>
        path0 == ReplaceAll(ReplaceAll(pathname, QM, "%3F"), "#", "%23")
        path1 == IF host0 # <<>> /\ path0 # <<>> /\ Head(path0) # SLASH
                 THEN <<SLASH>> \o path0 ELSE path0
        srch0 == ReplaceAll(search, "#", "%23")
        srch1 == IF srch0 # <<>> /\ Head(srch0) # QM
                 THEN <<QM>> \o srch0 ELSE srch0
    IN  <<protocol>> \o <<"//">> \o host0 \o path1 \o srch1

\* the default port taken to be 80 whatever the protocol
UrlPortHttpDefault(secureEndpoint, port) ==
    IF HttpDefaultPort = port THEN JsNull
    ELSE [t |-> "number", v |-> <<ToString(port)>>]

\* The port handed to url.format: null when it is the protocol's default.
UrlPort(secureEndpoint, port) ==
    LET defaultPort == IF secureEndpoint THEN HttpsDefaultPort
                       ELSE HttpDefaultPort
    IN  IF defaultPort = port THEN JsNull
        ELSE [t |-> "number", v |-> <<ToString(port)>>]

BuildUrl(req) ==
    LET firstQuestion == IndexOf(req.path, QM)
        search == IF firstQuestion = -1
                  THEN SubstringFrom(req.path, firstQuestion)
                  ELSE <<>>
        path == IF firstQuestion = -1
                THEN Substring(req.path, 0, firstQuestion)
                ELSE req.path
    IN  Format(IF req.secureEndpoint THEN "https:" ELSE "http:",
               <<req.host>>,
               UrlPort(req.secureEndpoint, req.port),
               path, search)

(***************************************************************************)
(* callback, lines 166-204: parsing the PAC result and dispatching.        *)
(***************************************************************************)
NoOpts == EmptyObject

Returned(kind, target, o) == [kind |-> kind, target |-> target, opts |-> o, err |-> <<>>]
Thrown(err) == [kind |-> "throw", target |-> <<>>, opts |-> NoOpts, err |-> err]
Pending == [kind |-> "pending", target |-> <<>>, opts |-> NoOpts, err |-> <<>>]

\* the proxy url always built with 'http://', whatever the directive's type
ParseAsHttp(scheme, hostport) ==
    LET colon == IndexOf(hostport, ":")
        hostname == IF colon = -1 THEN hostport ELSE Substring(hostport, 0, colon)
        port == IF colon = -1 \/ SubstringFrom(hostport, colon + 1) = <<>>
                THEN JsNull
                ELSE JsString(SubstringFrom(hostport, colon + 1))
    IN  With(EmptyObject,
             [protocol |-> JsString(<<"http", ":">>),
              slashes  |-> JsTrue,
              auth     |-> JsNull,
              host     |-> JsString(hostport),
              port     |-> port,
              hostname |-> JsString(hostname),
              hash     |-> JsNull,
              search   |-> JsNull,
              query    |-> JsNull,
              pathname |-> JsString(<<SLASH>>),
              path     |-> JsString(<<SLASH>>),
              href     |-> JsString(<<"http", "://">> \o hostport \o <<SLASH>>)])

\* url.parse(scheme + '://' + hostport), hostport being "host", "host:port"
\* or the text "undefined"
Parse(scheme, hostport) ==
    LET colon == IndexOf(hostport, ":")
        hostname == IF colon = -1 THEN hostport ELSE Substring(hostport, 0, colon)
        port == IF colon = -1 \/ SubstringFrom(hostport, colon + 1) = <<>>
                THEN JsNull
                ELSE JsString(SubstringFrom(hostport, colon + 1))
    IN  With(EmptyObject,
             [protocol |-> JsString(<<scheme, ":">>),
              slashes  |-> JsTrue,
              auth     |-> JsNull,
              host     |-> JsString(hostport),
              port     |-> port,
              hostname |-> JsString(hostname),
              hash     |-> JsNull,
              search   |-> JsNull,
              query    |-> JsNull,
              pathname |-> JsString(<<SLASH>>),
              path     |-> JsString(<<SLASH>>),
              href     |-> JsString(<<scheme, "://">> \o hostport \o <<SLASH>>)])

\* lines 171-174 without the filter(Boolean)
ProxiesUnfiltered(proxy) ==
    SplitSemi(Trim(String(
        IF Falsy(proxy) THEN JsString(<<"DIRECT">>) ELSE proxy)))

\* lines 171-174
Proxies(proxy) ==
    FilterBoolean(SplitSemi(Trim(String(
        IF Falsy(proxy) THEN JsString(<<"DIRECT">>) ELSE proxy))))

\* an unknown type taken as DIRECT
UnknownProxyTypeDirect(type, request) ==
    Returned("net.connect", <<request.host, ":", ToString(request.port)>>, NoOpts)

\* line 204
UnknownProxyType(type, request) ==
    Thrown(<<"Unknown proxy type: ">> \o type)

\* every direct connection made in plain text
ConnectDirectPlain(request) ==
    Returned("net.connect", <<request.host, ":", ToString(request.port)>>, NoOpts)

\* lines 183-188: tls.connect(opts) or net.connect(opts)
ConnectDirect(request) ==
    LET endpoint == <<request.host, ":", ToString(request.port)>>
    IN  IF request.secureEndpoint
        THEN Returned("tls.connect", endpoint, NoOpts)
        ELSE Returned("net.connect", endpoint, NoOpts)

\* 'socks://' + parts[0]
SocksConnectorOfType(type, arg) ==
    Returned("SocksProxyAgent", <<"socks://">> \o type, NoOpts)

\* lines 189-191: new SocksProxyAgent('socks://' + parts[1])
SocksConnector(type, arg) ==
    Returned("SocksProxyAgent", <<"socks://">> \o arg, NoOpts)

\* the connector class chosen by the directive's type
ProxyConnectorByType(type, arg, request, thisOpts) ==
    LET scheme == IF type = <<"HTTPS">> THEN "https" ELSE "http"
        proxyOpts == Spread(thisOpts, Parse(scheme, arg))
    IN  IF type = <<"HTTPS">>
        THEN Returned("HttpsProxyAgent", <<>>, proxyOpts)
        ELSE Returned("HttpProxyAgent", <<>>, proxyOpts)

\* lines 192-202: new HttpsProxyAgent(proxyOpts) or new HttpProxyAgent(proxyOpts)
ProxyConnector(type, arg, request, thisOpts) ==
    LET scheme == IF type = <<"HTTPS">> THEN "https" ELSE "http"
        proxyOpts == Spread(thisOpts, Parse(scheme, arg))
    IN  IF request.secureEndpoint
        THEN Returned("HttpsProxyAgent", <<>>, proxyOpts)
        ELSE Returned("HttpProxyAgent", <<>>, proxyOpts)

\* lines 180-204, for the chosen candidate `first`
DispatchFirst(first, request, thisOpts) ==
    LET parts == SplitWs(first)
        type == parts[1]
        \* parts[1] of the code, as it appears in a string concatenation
        arg == IF Len(parts) >= 2 THEN parts[2] ELSE <<"undefined">>
    IN  IF type = <<"DIRECT">>
        THEN ConnectDirect(request)
        ELSE IF type = <<"SOCKS">>
        THEN SocksConnector(type, arg)
        ELSE IF type = <<"PROXY">> \/ type = <<"HTTPS">>
        THEN ProxyConnector(type, arg, request, thisOpts)
        ELSE UnknownProxyType(type, request)

\* lines 166-204: the outcome of callback once the PAC function returned
\* `proxy`.  With no candidate left, `first` is undefined and first.split
\* raises a TypeError.
Dispatch(proxy, request, thisOpts) ==
    LET proxies == Proxies(proxy)
    IN  IF proxies = <<>>
        THEN Thrown(<<"TypeError">>)
        ELSE DispatchFirst(proxies[1], request, thisOpts)

(***************************************************************************)
(* The agent, the calls of callback in flight and the last call that       *)
(* completed.                                                              *)
(***************************************************************************)
VARIABLES
    ctor,          \* the arguments the constructor was called with
    uri,           \* this.uri
    opts,          \* this.opts
    cache,         \* this.cache: the stream of the last getUri that resolved
    resolver,      \* this.resolver
    resolverHash,  \* this.resolverHash
    calls,         \* the calls of callback that are suspended at an await
    done,          \* the call of callback that completed last
    nreq,          \* calls of callback so far
    nstreams,      \* streams handed out by getUri so far
    ncompiled      \* resolvers created by createPacResolver so far

vars == <<ctor, uri, opts, cache, resolver, resolverHash, calls, done, nreq,
          nstreams, ncompiled>>

agent == <<ctor, uri, opts>>

NoStream == [id |-> 0, body |-> "none"]
NoResolver == [id |-> 0, code |-> "none"]
NoRequest == [secureEndpoint |-> FALSE, host |-> "none", port |-> 0, path |-> <<>>]
NoStats == [fetch |-> 0, compile |-> 0, eval |-> 0, conn |-> 0]

\* this.cache, this.resolver and this.resolverHash as they are now
Snapshot == [cache |-> cache, resolver |-> resolver, resolverHash |-> resolverHash]

\* A call of callback:
\*   n        its number, in the order the calls were made
\*   pc       the await it is suspended at, or "done"
\*   req      the request's options (opts of callback)
\*   pre      this.cache, this.resolver, this.resolverHash when it was made;
\*            pre.cache is the `cache` option handed to getUri
\*   rs       the stream getUri resolved with
\*   fetched  how its fetch ended
\*   fn       the resolver loadResolver returned
\*   url      the url handed to the PAC function
\*   proxy    what the PAC function returned
\*   out      what callback returned or threw
\*   stats    what the call has caused so far
NoCall ==
    [n |-> 0, pc |-> "none", req |-> NoRequest,
     pre |-> [cache |-> NoStream, resolver |-> NoResolver, resolverHash |-> <<>>],
     rs |-> NoStream, fetched |-> "none", fn |-> NoResolver, url |-> <<>>,
     proxy |-> NotReturned, out |-> Pending, stats |-> NoStats]

\* the PAC scripts the source may serve; BadScripts are rejected by the
\* script evaluator
Scripts == {"A", "B", "BAD"}
BadScripts == {"BAD"}

\* crypto.createHash('sha1').update(code).digest('hex')
Sha1(code) ==
    CASE code = "A"   -> <<"6dcd4ce23d88e2ee9568ba546c007c63d9131c1b">>
      [] code = "B"   -> <<"ae4f281df5a5d0ff3cad6371f76d5c29b6d953ec">>
      [] code = "BAD" -> <<"28f6edbb2a32e83291265b6a8b9bd3f31cf965c2">>

\* the errors the collaborators raise: err.code as a JavaScript value
ENotModified == [name |-> "NotModifiedError", code |-> JsString(<<"ENOTMODIFIED">>)]
ENotFound == [name |-> "NotFoundError", code |-> JsString(<<"ENOTFOUND">>)]
EReadAborted == [name |-> "ReadAbortedError", code |-> JsString(<<"ECONNABORTED">>)]
ESyntax == [name |-> "SyntaxError", code |-> JsUndefined]
EPacFunction == [name |-> "PacFunctionError", code |-> JsUndefined]

\* String.prototype.toLowerCase on a token
ToLowerCase(tok) ==
    CASE tok \in {"PAC+", "Pac+", "pAc+"} -> "pac+"
      [] OTHER -> tok

\* the prefix matched in the given spelling only
StripPacPrefixExactCase(u) ==
    IF u # <<>> /\ Head(u) = "pac+" THEN Tail(u) ELSE u

\* line 45: uri.replace(/^pac\+/i, ''), the pattern being anchored at the
\* start, not global and insensitive to case
StripPacPrefix(u) ==
    IF u # <<>> /\ ToLowerCase(Head(u)) = "pac+" THEN Tail(u) ELSE u

\* constructor, lines 40-55, called with the uri u and the options o;
\* this.opts is the object o itself, with filename set when it has none
Constructor(u, o) ==
    /\ ctor = [uri |-> u, opts |-> o]
    /\ uri = StripPacPrefix(u)
    /\ opts = IF Falsy(Get(o, "filename"))
              THEN With(o, [filename |-> JsString(u)])
              ELSE o
    /\ cache = NoStream
    /\ resolver = NoResolver
    /\ resolverHash = <<>>
    /\ calls = {}
    /\ done = NoCall
    /\ nreq = 0
    /\ nstreams = 0
    /\ ncompiled = 0

\* new PacProxyAgent('file://proxy.pac')
Init == Constructor(<<"file:", "//", "proxy.pac">>, EmptyObject)

Bump(st, field) == [st EXCEPT ![field] = @ + 1]

\* The call c goes on as c2: it stays suspended, or it completes.
Continue(c, c2) ==
    IF c2.pc = "done"
    THEN /\ calls' = calls \ {c}
         /\ done' = c2
    ELSE /\ calls' = (calls \ {c}) \cup {c2}
         /\ UNCHANGED done

\* callback, lines 126-134, down to the getUri call of loadPacFile (line 111):
\* a request arrives and the fetch is issued with the current this.cache.
Callback(requests, limit) ==
    /\ Cardinality(calls) < limit
    /\ nreq < MaxRequests
    /\ \E r \in requests :
          calls' = calls \cup
              {[NoCall EXCEPT !.n = nreq + 1, !.pc = "getUri", !.req = r,
                              !.pre = Snapshot, !.fetched = "pending",
                              !.stats = Bump(NoStats, "fetch")]}
    /\ nreq' = nreq + 1
    /\ UNCHANGED <<agent, cache, resolver, resolverHash, done, nstreams, ncompiled>>

\* loadResolver returned `r` to callback: lines 136-163, the url is built and
\* the PAC function is called.
Resolved(c, r) ==
    [c EXCEPT !.fn = r, !.url = BuildUrl(c.req), !.pc = "resolver",
              !.stats = Bump(@, "eval")]

\* a failure answered with a direct connection
RejectedConnectsDirect(c, err) ==
    [c EXCEPT !.out = Returned("net.connect",
                               <<c.req.host, ":", ToString(c.req.port)>>, NoOpts),
              !.pc = "done", !.stats = Bump(@, "conn")]

\* on a failure callback starts over with a new fetch
RejectedRetries(c, err) ==
    [c EXCEPT !.pc = "getUri", !.stats = Bump(@, "fetch")]

\* the error is swallowed and the promise of callback never settles
RejectedHangs(c, err) == [c EXCEPT !.pc = "hung"]

\* callback rejects with `err`
Rejected(c, err) ==
    [c EXCEPT !.out = Thrown(<<err.name>>), !.pc = "done"]

\* loadResolver, line 92: the condition of the catch clause
ReusesResolver(err) ==
    /\ resolver # NoResolver
    /\ StrictEquals(JsBool(StrictEquals(err.code, JsString(<<"ENOTMODIFIED">>))),
                    err.code)

\* loadResolver, lines 91-99: the catch clause
Caught(c, err) ==
    IF ReusesResolver(err) THEN Resolved(c, resolver) ELSE Rejected(c, err)

\* line 75 without the comparison of the hashes
SameHashUnchecked(hash) == resolver # NoResolver

\* loadResolver, line 75: the fetched code hashes to the cached fingerprint
SameHash(hash) == resolver # NoResolver /\ resolverHash = hash

\* loadPacFile, lines 111-113: getUri resolves with a stream
GetUriResolve(c, bodies) ==
    /\ c.pc = "getUri"
    /\ \E b \in bodies :
          LET stream == [id |-> nstreams + 1, body |-> b]
          IN  /\ cache' = stream
              /\ Continue(c, [c EXCEPT !.rs = stream, !.fetched = "stream",
                                       !.pc = "getRawBody"])
    /\ nstreams' = nstreams + 1
    /\ UNCHANGED <<agent, resolver, resolverHash, nreq, ncompiled>>

\* loadPacFile, line 111: getUri rejects; "not modified" needs a previous
\* stream to compare with
GetUriReject(c, errors) ==
    /\ c.pc = "getUri"
    /\ \E e \in errors :
          /\ e = ENotModified => c.pre.cache # NoStream
          /\ Continue(c, Caught([c EXCEPT !.fetched =
                                    IF e = ENotModified THEN "unchanged"
                                    ELSE "error"], e))
    /\ UNCHANGED <<agent, cache, resolver, resolverHash, nreq, nstreams, ncompiled>>

\* lines 69-90 with the hash stored before the script is compiled
GetRawBodyResolveHashFirst(c) ==
    /\ c.pc = "getRawBody"
    /\ LET code == c.rs.body
           hash == Sha1(code)
           read == [c EXCEPT !.fetched = "bytes"]
           compiling == [read EXCEPT !.stats = Bump(@, "compile")]
       IN  IF SameHash(hash)
           THEN /\ Continue(c, Resolved(read, resolver))
                /\ UNCHANGED <<resolver, resolverHash, ncompiled>>
           ELSE IF code \in BadScripts
           THEN /\ Continue(c, Caught(compiling, ESyntax))
                /\ resolverHash' = hash
                /\ UNCHANGED <<resolver, ncompiled>>
           ELSE LET created == [id |-> ncompiled + 1, code |-> code]
                IN  /\ resolver' = created
                    /\ resolverHash' = hash
                    /\ ncompiled' = ncompiled + 1
                    /\ Continue(c, Resolved(compiling, created))
    /\ UNCHANGED <<agent, cache, nreq, nstreams>>

\* loadPacFile, lines 115-118, and loadResolver, lines 69-90: the body is
\* read, hashed and, unless the hash is the cached one, compiled
GetRawBodyResolve(c) ==
    /\ c.pc = "getRawBody"
    /\ LET code == c.rs.body
           hash == Sha1(code)
           read == [c EXCEPT !.fetched = "bytes"]
           compiling == [read EXCEPT !.stats = Bump(@, "compile")]
       IN  IF SameHash(hash)
           THEN /\ Continue(c, Resolved(read, resolver))
                /\ UNCHANGED <<resolver, resolverHash, ncompiled>>
           ELSE IF code \in BadScripts
           THEN /\ Continue(c, Caught(compiling, ESyntax))
                /\ UNCHANGED <<resolver, resolverHash, ncompiled>>
           ELSE LET created == [id |-> ncompiled + 1, code |-> code]
                IN  /\ resolver' = created
                    /\ resolverHash' = hash
                    /\ ncompiled' = ncompiled + 1
                    /\ Continue(c, Resolved(compiling, created))
    /\ UNCHANGED <<agent, cache, nreq, nstreams>>

\* loadPacFile, line 115: reading the body fails
GetRawBodyReject(c) ==
    /\ c.pc = "getRawBody"
    /\ Continue(c, Caught([c EXCEPT !.fetched = "error"], EReadAborted))
    /\ UNCHANGED <<agent, cache, resolver, resolverHash, nreq, nstreams, ncompiled>>

\* the outcome of the last call that connected is used again
ResolverResolveCached(c, values) ==
    /\ c.pc = "resolver"
    /\ \E v \in values :
          \E result \in {IF done.pc = "done" /\ done.out.kind # "throw"
                         THEN done.out
                         ELSE Dispatch(v, c.req, opts)} :
              Continue(c, [c EXCEPT !.proxy = v, !.out = result, !.pc = "done",
                                    !.stats = IF result.kind = "throw" THEN @
                                              ELSE Bump(@, "conn")])
    /\ UNCHANGED <<agent, cache, resolver, resolverHash, nreq, nstreams, ncompiled>>

\* callback, lines 163-204: the PAC function returned the value v
ResolverResolve(c, values) ==
    /\ c.pc = "resolver"
    /\ \E v \in values :
          \E result \in {Dispatch(v, c.req, opts)} :
              Continue(c, [c EXCEPT !.proxy = v, !.out = result, !.pc = "done",
                                    !.stats = IF result.kind = "throw" THEN @
                                              ELSE Bump(@, "conn")])
    /\ UNCHANGED <<agent, cache, resolver, resolverHash, nreq, nstreams, ncompiled>>

\* callback, line 163: the PAC function throws
ResolverReject(c) ==
    /\ c.pc = "resolver"
    /\ Continue(c, Rejected(c, EPacFunction))
    /\ UNCHANGED <<agent, cache, resolver, resolverHash, nreq, nstreams, ncompiled>>

(***************************************************************************)
(* The inputs.                                                             *)
(***************************************************************************)
Str(tokens) == JsString(tokens)

Request(secure, port, path) ==
    [secureEndpoint |-> secure, host |-> "example.com", port |-> port, path |-> path]

Ports == {80, 443, 8080}
Paths == {<<SLASH, "test">>,
          <<SLASH, "test", QM, "a=1">>,
          <<SLASH, "test", QM, "a=1", QM, "b=2">>}

AllRequests == {Request(s, n, t) : s \in BOOLEAN, n \in Ports, t \in Paths}
FewRequests == {Request(FALSE, 80, <<SLASH, "test">>),
                Request(TRUE, 443, <<SLASH, "test", QM, "a=1">>)}

FalsyValues == {Str(<<>>), JsNull, JsUndefined, JsZero, JsFalse}

AllValues ==
    FalsyValues \cup
    {Str(<<"DIRECT">>),
     Str(<<WS, "DIRECT", WS, SEMI>>),
     Str(<<"direct">>),
     Str(<<"DIRECT", SEMI, WS, "BOGUS", WS, "1.2.3.4", ":", "80">>),
     Str(<<"BOGUS", WS, "1.2.3.4", ":", "80">>),
     Str(<<"BOGUS", WS, "1.2.3.4", ":", "80", SEMI, "DIRECT">>),
     Str(<<"PROXY", WS, "1.2.3.4", ":", "8080", SEMI, WS, "SOCKS", WS, "5.6.7.8", ":", "1080">>),
     Str(<<"PROXY", WS, "127.0.0.1", ":", "9000", SEMI>>),
     Str(<<SEMI, WS, "HTTPS", WS, "127.0.0.1", ":", "9443", WS, SEMI, "DIRECT">>),
     Str(<<"SOCKS", WS, "127.0.0.1", ":", "9001", SEMI>>),
     Str(<<"SOCKS", SEMI, "DIRECT">>),
     Str(<<"PROXY">>),
     Str(<<WS>>),
     Str(<<SEMI>>),
     JsTrue}

FewValues == {Str(<<"DIRECT">>),
              Str(<<"PROXY", WS, "127.0.0.1", ":", "9000", SEMI>>),
              Str(<<"BOGUS", WS, "1.2.3.4", ":", "80">>)}

FetchErrors == {ENotModified, ENotFound}

\* the uri argument of the constructor; the "pac+" prefix, in some spelling,
\* is a token of its own
Uris == {<<"file:", "//", "proxy.pac">>,
         <<"pac+", "ftp:", "//", "example.com", SLASH, "proxy.pac">>,
         <<"PAC+", "http:", "//", "example.com", SLASH, "proxy.pac">>,
         <<"Pac+", "pac+", "file:", "//", "proxy.pac">>,
         <<"data:", ",", "pac+">>}

\* the opts argument of the constructor
BaselineOpts ==
    {EmptyObject,
     With(EmptyObject, [rejectUnauthorized |-> JsFalse]),
     With(EmptyObject, [filename |-> Str(<<"my.pac">>)]),
     With(EmptyObject, [host |-> Str(<<"proxy.corp">>),
                        port |-> [t |-> "number", v |-> <<"3128">>],
                        auth |-> Str(<<"user", ":", "secret">>)])}

\* the PAC results that name a connection or a connector
ConnectingValues ==
    {Str(<<"DIRECT">>),
     Str(<<"PROXY", WS, "127.0.0.1", ":", "9000", SEMI>>),
     Str(<<SEMI, WS, "HTTPS", WS, "127.0.0.1", ":", "9443", WS, SEMI, "DIRECT">>),
     Str(<<"SOCKS", WS, "127.0.0.1", ":", "9001", SEMI>>)}

(***************************************************************************)
(* Spec: requests overlapping on one agent, the source serving any script  *)
(* or failing.                                                             *)
(***************************************************************************)
Next ==
    \/ Callback(FewRequests, MaxInFlight)
    \/ \E c \in calls : GetUriResolve(c, Scripts)
    \/ \E c \in calls : GetUriReject(c, FetchErrors)
    \/ \E c \in calls : GetRawBodyResolve(c)
    \/ \E c \in calls : GetRawBodyReject(c)
    \/ \E c \in calls : ResolverResolve(c, FewValues)
    \/ \E c \in calls : ResolverReject(c)

Spec == Init /\ [][Next]_vars

(***************************************************************************)
(* SpecLive: overlapping requests where every collaborator call returns    *)
(* or fails: the promise a call of callback awaits is settled in the end   *)
(* and the event loop then runs the call's continuation.  One request      *)
(* shape, a good and a bad script, one fetch error, a known and an unknown *)
(* directive.                                                              *)
(***************************************************************************)
LiveRequests == {Request(FALSE, 80, <<SLASH, "test">>)}
LiveScripts == {"A", "BAD"}
LiveErrors == {ENotFound}
LiveValues == {Str(<<"DIRECT">>), Str(<<"BOGUS", WS, "1.2.3.4", ":", "80">>)}

NextLive ==
    \/ Callback(LiveRequests, MaxInFlight)
    \/ \E c \in calls : GetUriResolve(c, LiveScripts)
    \/ \E c \in calls : GetUriReject(c, LiveErrors)
    \/ \E c \in calls : GetRawBodyResolve(c)
    \/ \E c \in calls : GetRawBodyReject(c)
    \/ \E c \in calls : ResolverResolve(c, LiveValues)
    \/ \E c \in calls : ResolverReject(c)

\* the await of call number n ends, one way or the other
Settle(n) ==
    \E c \in calls :
        /\ c.n = n
        /\ \/ GetUriResolve(c, LiveScripts)
           \/ GetUriReject(c, LiveErrors)
           \/ GetRawBodyResolve(c)
           \/ GetRawBodyReject(c)
           \/ ResolverResolve(c, LiveValues)
           \/ ResolverReject(c)

SpecLive ==
    /\ Init /\ [][NextLive]_vars
    /\ \A n \in 1..MaxRequests : WF_vars(Settle(n))

(***************************************************************************)
(* SpecSeq: as Spec, one request at a time.                                *)
(***************************************************************************)
NextSeq ==
    \/ Callback(FewRequests, 1)
    \/ \E c \in calls : GetUriResolve(c, Scripts)
    \/ \E c \in calls : GetUriReject(c, FetchErrors)
    \/ \E c \in calls : GetRawBodyResolve(c)
    \/ \E c \in calls : GetRawBodyReject(c)
    \/ \E c \in calls : ResolverResolve(c, FewValues)
    \/ \E c \in calls : ResolverReject(c)

SpecSeq == Init /\ [][NextSeq]_vars

(***************************************************************************)
(* SpecDispatch: one request at a time, of every shape and with every PAC  *)
(* result, the source serving one script.                                  *)
(***************************************************************************)
NextDispatch ==
    \/ Callback(AllRequests, 1)
    \/ \E c \in calls : GetUriResolve(c, {"A"})
    \/ \E c \in calls : GetRawBodyResolve(c)
    \/ \E c \in calls : ResolverResolve(c, AllValues)

SpecDispatch == Init /\ [][NextDispatch]_vars

(***************************************************************************)
(* SpecConstruct: the agent constructed with any of the uris and options,  *)
(* then one request at a time.                                             *)
(***************************************************************************)
InitConstruct == \E u \in Uris, o \in BaselineOpts : Constructor(u, o)

NextConstruct ==
    \/ Callback(FewRequests, 1)
    \/ \E c \in calls : GetUriResolve(c, {"A"})
    \/ \E c \in calls : GetRawBodyResolve(c)
    \/ \E c \in calls : ResolverResolve(c, ConnectingValues)

SpecConstruct == InitConstruct /\ [][NextConstruct]_vars

(***************************************************************************)
(* Notions the properties are stated with.                                 *)
(***************************************************************************)
\* the calls in flight and the one that completed last
Calls == calls \cup (IF done.pc = "done" THEN {done} ELSE {})

\* the call c after the step
After(c) == CHOOSE d \in calls' \cup {done'} : d.n = c.n

\* the step is the one in which c's body is read in full
ReadsBytes(c) == c.pc = "getRawBody" /\ After(c).fetched = "bytes"

\* how a completed call failed
LoadFailed(c) == c.pc = "done" /\ c.fn = NoResolver
PacThrew(c) == c.pc = "done" /\ c.fn # NoResolver /\ c.proxy = NotReturned
PacReturned(c) == c.pc = "done" /\ c.proxy # NotReturned

\* The first non-empty candidate of a PAC result, read off the text: what
\* stands between the leading white space and semicolons and the next
\* semicolon, less the white space before that semicolon.
RECURSIVE SkipSeparators(_)
SkipSeparators(s) ==
    IF s # <<>> /\ Head(s) \in {WS, SEMI} THEN SkipSeparators(Tail(s)) ELSE s

RECURSIVE UpToSemi(_)
UpToSemi(s) ==
    IF s = <<>> \/ Head(s) = SEMI THEN <<>> ELSE <<Head(s)>> \o UpToSemi(Tail(s))

RECURSIVE DropTrailingWs(_)
DropTrailingWs(s) ==
    IF s # <<>> /\ s[Len(s)] = WS THEN DropTrailingWs(SubSeq(s, 1, Len(s) - 1)) ELSE s

FirstCandidate(s) == DropTrailingWs(UpToSemi(SkipSeparators(s)))
TypeToken(s) == <<Head(FirstCandidate(s))>>
KnownTypes == {<<"DIRECT">>, <<"SOCKS">>, <<"PROXY">>, <<"HTTPS">>}

\* the PAC result of c is a text with a first candidate
HasCandidate(c) ==
    /\ PacReturned(c)
    /\ c.proxy \notin FalsyValues
    /\ FirstCandidate(String(c.proxy)) # <<>>

ParseFailed(c) ==
    /\ PacReturned(c)
    /\ c.proxy \notin FalsyValues
    /\ \/ FirstCandidate(String(c.proxy)) = <<>>
       \/ TypeToken(String(c.proxy)) \notin KnownTypes

\* the error a failed call started from
OriginatingError(c) ==
    IF c.fetched = "unchanged" THEN <<ENotModified.name>>
    ELSE IF c.fetched = "error" /\ c.rs = NoStream THEN <<ENotFound.name>>
    ELSE IF c.fetched = "error" THEN <<EReadAborted.name>>
    ELSE IF c.fn = NoResolver THEN <<ESyntax.name>>
    ELSE IF c.proxy = NotReturned THEN <<EPacFunction.name>>
    ELSE IF FirstCandidate(String(c.proxy)) = <<>> THEN <<"TypeError">>
    ELSE <<"Unknown proxy type: ">> \o TypeToken(String(c.proxy))

Connected(c) ==
    c.out.kind \in {"tls.connect", "net.connect", "SocksProxyAgent",
                    "HttpProxyAgent", "HttpsProxyAgent"}

(***************************************************************************)
(* The claims.                                                             *)
(***************************************************************************)

\* C1: a call whose fetch reported ENOTMODIFIED while a resolver was cached
\* gets that resolver from loadResolver, without a compilation, and goes on
\* to evaluate it.
C1_UnchangedReusesResolver ==
    \A c \in Calls :
        (c.fetched = "unchanged" /\ c.pre.resolver # NoResolver) =>
            /\ c.fn # NoResolver
            /\ c.stats.compile = 0
            /\ c.stats.eval = 1

\* C2: at most one fetch of the source is outstanding at any time.
C2_SingleFlight ==
    Cardinality({c \in calls : c.pc \in {"getUri", "getRawBody"}}) <= 1

\* C3: in the step that reads a fetched body, the script evaluator is invoked
\* exactly when no resolver is cached or the body's fingerprint differs from
\* the cached one; when it is not invoked the call gets the very resolver
\* that is cached, and when it is invoked with success the new resolver is
\* the one cached and returned.
C3_CompilesExactlyOnChange ==
    [][\A c \in calls : ReadsBytes(c) =>
          LET d == After(c)
              invoked == d.stats.compile = c.stats.compile + 1
          IN  /\ invoked <=> (resolver = NoResolver
                                \/ resolverHash # Sha1(c.rs.body))
              /\ ~invoked => /\ d.stats.compile = c.stats.compile
                             /\ d.fn = resolver
                             /\ resolver' = resolver
                             /\ ncompiled' = ncompiled
              /\ (invoked /\ d.fn # NoResolver) =>
                             /\ ncompiled' = ncompiled + 1
                             /\ d.fn = [id |-> ncompiled', code |-> c.rs.body]
                             /\ resolver' = d.fn]_vars

\* second load of the same script: no compilation, the first resolver returned
C3_Witness ==
    /\ done.pc = "done" /\ done.n = 2 /\ done.fetched = "bytes"
    /\ done.rs.body = "A" /\ done.stats.compile = 0
    /\ done.fn = [id |-> 1, code |-> "A"] /\ ncompiled = 1

\* C4: a call whose load fails ends with the error of the load, and the
\* cached resolver and fingerprint change in no step other than a successful
\* load, so that a later body with the cached fingerprint gets the cached
\* resolver without a compilation.
C4_FailedLoadKeepsResolver ==
    /\ [](LoadFailed(done) =>
            done.out.kind = "throw" /\ done.out.err = OriginatingError(done))
    /\ [][/\ (resolver' # resolver \/ resolverHash' # resolverHash) =>
               \E c \in calls :
                   /\ ReadsBytes(c)
                   /\ After(c).pc = "resolver"
                   /\ resolver' = After(c).fn
                   /\ resolverHash' = Sha1(c.rs.body)
          /\ \A c \in calls :
               (ReadsBytes(c) /\ resolver # NoResolver
                    /\ Sha1(c.rs.body) = resolverHash) =>
                   /\ After(c).fn = resolver
                   /\ After(c).stats.compile = c.stats.compile]_vars

\* a script is rejected while a resolver is cached: the resolver stays
C4_Witness ==
    /\ LoadFailed(done) /\ done.out.err = <<ESyntax.name>>
    /\ resolver = [id |-> 1, code |-> "A"] /\ resolver = done.pre.resolver
    /\ resolverHash = Sha1("A")

\* C5: with one request at a time, when the fetch of a call has failed,
\* this.cache, this.resolver and this.resolverHash are what they were when
\* the call was made.
C5_FetchFailureMutatesNothing ==
    (done.pc = "done" /\ done.fetched = "error" /\ calls = {}) =>
        Snapshot = done.pre

\* C6: a call that is suspended has opened nothing; a call whose load, PAC
\* function or directive failed ends with the originating error, and no
\* call that ends with an error has opened a connection or created a
\* connector.
C6_FailClosed ==
    /\ \A c \in calls : c.stats.conn = 0 /\ c.out = Pending
    /\ (LoadFailed(done) \/ PacThrew(done) \/ ParseFailed(done)) =>
           /\ done.out.kind = "throw"
           /\ done.out.err = OriginatingError(done)
    /\ done.out.kind = "throw" => done.stats.conn = 0 /\ ~Connected(done)
    /\ done.pc = "done" => (done.stats.conn = 1 <=> Connected(done))

\* the PAC function threw in the second call: an error, nothing opened
C6_Witness ==
    /\ done.out.kind = "throw"
    /\ done.stats.conn = 0
    /\ PacThrew(done)
    /\ nreq = 2

\* C7: a PAC result whose first candidate's type is none of DIRECT, SOCKS,
\* PROXY, HTTPS makes the call fail with 'Unknown proxy type: <type>', with
\* no connection and no connector.
C7_UnknownTypeRejected ==
    (HasCandidate(done) /\ TypeToken(String(done.proxy)) \notin KnownTypes) =>
        /\ done.out = Thrown(<<"Unknown proxy type: ">> \o TypeToken(String(done.proxy)))
        /\ done.stats.conn = 0

\* the type in lower case
C7_Witness ==
    /\ done.pc = "done"
    /\ done.proxy = Str(<<"direct">>)
    /\ done.out.err = <<"Unknown proxy type: ", "direct">>

\* C8: the outcome of a call is the outcome of its PAC result's first
\* non-empty candidate, and the same as for a PAC result that holds that
\* candidate alone.
C8_FirstCandidateOnly ==
    HasCandidate(done) =>
        LET first == FirstCandidate(String(done.proxy))
        IN  /\ done.out = DispatchFirst(first, done.req, opts)
            /\ done.out = Dispatch(Str(first), done.req, opts)

\* two candidates, the first one acted upon
C8_Witness ==
    /\ done.pc = "done"
    /\ done.proxy = Str(<<"PROXY", WS, "1.2.3.4", ":", "8080", SEMI, WS,
                          "SOCKS", WS, "5.6.7.8", ":", "1080">>)
    /\ done.out.kind = "HttpProxyAgent"
    /\ done.out.opts["host"] = Str(<<"1.2.3.4", ":", "8080">>)

\* C9: a falsy PAC result has the outcome of the result "DIRECT": a TLS
\* connection to the destination when it is secure, a plain one otherwise.
C9_FalsyIsDirect ==
    (PacReturned(done) /\ done.proxy \in FalsyValues) =>
        /\ done.out = Dispatch(Str(<<"DIRECT">>), done.req, opts)
        /\ done.out.kind = IF done.req.secureEndpoint THEN "tls.connect"
                           ELSE "net.connect"
        /\ done.out.target = <<done.req.host, ":", ToString(done.req.port)>>

\* the empty string on a secure destination
C9_Witness ==
    /\ PacReturned(done)
    /\ done.proxy = Str(<<>>)
    /\ done.req.secureEndpoint
    /\ done.out.kind = "tls.connect"

\* C10: the url handed to the PAC function starts with https: for a secure
\* destination and http: otherwise, and carries the port exactly when it is
\* not the default port of that scheme.
C10_SchemeAndPort ==
    \A c \in Calls : c.url # <<>> =>
        LET defaultPort == IF c.req.secureEndpoint THEN 443 ELSE 80
            hasPort == /\ Len(c.url) >= 5
                       /\ c.url[4] = ":"
                       /\ c.url[5] = ToString(c.req.port)
        IN  /\ c.url[1] = (IF c.req.secureEndpoint THEN "https:" ELSE "http:")
            /\ c.url[2] = "//"
            /\ c.url[3] = c.req.host
            /\ hasPort <=> c.req.port # defaultPort

\* port 443 on an insecure destination is spelled out
C10_Witness ==
    \E c \in Calls :
        /\ ~c.req.secureEndpoint /\ c.req.port = 443
        /\ Len(c.url) >= 5
        /\ SubSeq(c.url, 1, 5) = <<"http:", "//", "example.com", ":", "443">>

\* what a url holds after its scheme, host and port
UrlAfterAuthority(url) ==
    IF Len(url) >= 5 /\ url[4] = ":"
    THEN SubSeq(url, 6, Len(url))
    ELSE SubSeq(url, 4, Len(url))

\* the path component of a request target or url tail: what precedes the
\* first '?'; the query component: the first '?' and what follows it
PathOf(s) ==
    IF \E i \in 1..Len(s) : s[i] = QM
    THEN SubSeq(s, 1, IndexOf(s, QM))
    ELSE s

QueryOf(s) ==
    IF \E i \in 1..Len(s) : s[i] = QM
    THEN SubSeq(s, IndexOf(s, QM) + 1, Len(s))
    ELSE <<>>

\* C11: the url handed to the PAC function carries the request's path and
\* query verbatim: its path is the request path up to the first '?', its
\* query is the request path from the first '?' on, and a request path
\* without '?' gives a url with that path and no query.
C11_PathAndQueryVerbatim ==
    \A c \in Calls : c.url # <<>> =>
        LET rest == UrlAfterAuthority(c.url)
        IN  /\ PathOf(rest) = PathOf(c.req.path)
            /\ QueryOf(rest) = QueryOf(c.req.path)

\* The argument of a PAC result's first candidate, read off the text: what
\* follows the type and the white space after it, up to the next white space.
RECURSIVE UpToWs(_)
UpToWs(s) ==
    IF s = <<>> \/ Head(s) = WS THEN <<>> ELSE <<Head(s)>> \o UpToWs(Tail(s))

DirectiveArg(s) == UpToWs(TrimStart(Tail(FirstCandidate(s))))

\* the first candidate of c's PAC result is `type host:port`
HasDirective(c, type) ==
    /\ HasCandidate(c)
    /\ TypeToken(String(c.proxy)) = <<type>>
    /\ Len(DirectiveArg(String(c.proxy))) = 3
    /\ DirectiveArg(String(c.proxy))[2] = ":"

IsProxyConnector(out) == out.kind \in {"HttpProxyAgent", "HttpsProxyAgent"}

\* C12: for a PROXY or HTTPS directive the connector's configuration names
\* exactly the directive's host:port as the proxy endpoint, with protocol
\* http: for PROXY and https: for HTTPS on a secure and on an insecure
\* destination alike; for a SOCKS directive the connector is made for
\* socks://host:port.
C12_ProxyEndpoint ==
    /\ \A type \in {"PROXY", "HTTPS"} : HasDirective(done, type) =>
          LET arg == DirectiveArg(String(done.proxy))
              o == done.out.opts
          IN  /\ IsProxyConnector(done.out)
              /\ o["host"] = Str(arg)
              /\ o["hostname"] = Str(<<arg[1]>>)
              /\ o["port"] = Str(<<arg[3]>>)
              /\ o["protocol"] = Str(<<IF type = "HTTPS" THEN "https" ELSE "http", ":">>)
    /\ HasDirective(done, "SOCKS") =>
          /\ done.out.kind = "SocksProxyAgent"
          /\ done.out.target = <<"socks://">> \o DirectiveArg(String(done.proxy))

\* an HTTPS directive for an insecure destination: the proxy is reached
\* over https
C12_Witness ==
    /\ HasDirective(done, "HTTPS")
    /\ ~done.req.secureEndpoint
    /\ done.out.opts["protocol"] = Str(<<"https", ":">>)
    /\ done.out.opts["host"] = Str(<<"127.0.0.1", ":", "9443">>)

\* C13: for a PROXY or HTTPS directive, every setting this.opts holds is in
\* the connector's configuration with the same value, also under the keys
\* the parsed endpoint defines (host, port, protocol, auth, path).
C13_BaselineSettingsKept ==
    \A type \in {"PROXY", "HTTPS"} : HasDirective(done, type) =>
        \A k \in Keys :
            opts[k] # JsAbsent => done.out.opts[k] = opts[k]

\* the request with the destination's security flag inverted
Flipped(req) == [req EXCEPT !.secureEndpoint = ~@]

OpensConnection(out) == out.kind \in {"tls.connect", "net.connect"}

\* C14: for a SOCKS directive the call returns a SOCKS connector for
\* socks://host:port and opens no connection, and the same request with the
\* other security flag has the same outcome.
C14_SocksConnector ==
    HasDirective(done, "SOCKS") =>
        /\ done.out = Returned("SocksProxyAgent",
                               <<"socks://">> \o DirectiveArg(String(done.proxy)),
                               NoOpts)
        /\ ~OpensConnection(done.out)
        /\ done.out = Dispatch(done.proxy, Flipped(done.req), opts)

\* a SOCKS directive for a secure destination
C14_Witness ==
    /\ HasDirective(done, "SOCKS")
    /\ done.req.secureEndpoint
    /\ done.out.kind = "SocksProxyAgent"
    /\ done.out.target = <<"socks://", "127.0.0.1", ":", "9001">>

\* C15: for a DIRECT directive the call opens exactly one connection to the
\* destination, with tls.connect exactly when the destination is secure and
\* with net.connect otherwise, and creates no connector.
C15_DirectConnection ==
    (HasCandidate(done) /\ TypeToken(String(done.proxy)) = <<"DIRECT">>) =>
        /\ done.out.kind = (IF done.req.secureEndpoint THEN "tls.connect"
                            ELSE "net.connect")
        /\ done.out.target = <<done.req.host, ":", ToString(done.req.port)>>
        /\ done.out.opts = NoOpts
        /\ done.stats.conn = 1

\* DIRECT for a secure destination on a port other than 443
C15_Witness ==
    /\ done.proxy = Str(<<"DIRECT">>)
    /\ done.req.secureEndpoint /\ done.req.port = 8080
    /\ done.out.kind = "tls.connect"
    /\ done.out.target = <<"example.com", ":", "8080">>

\* "pac+" in some letter case
IsPacPrefix(tok) == tok \in {"pac+", "PAC+", "Pac+", "pAc+"}

\* C16: this.uri is the uri the constructor was given less exactly one
\* leading "pac+", in whatever letter case, and the given uri itself when
\* it does not start with that prefix; 'pac+ftp://example.com/proxy.pac'
\* gives 'ftp://example.com/proxy.pac'.
C16_PrefixStripped ==
    /\ IF ctor.uri # <<>> /\ IsPacPrefix(Head(ctor.uri))
       THEN <<Head(ctor.uri)>> \o uri = ctor.uri
       ELSE uri = ctor.uri
    /\ ctor.uri = <<"pac+", "ftp:", "//", "example.com", SLASH, "proxy.pac">> =>
           uri = <<"ftp:", "//", "example.com", SLASH, "proxy.pac">>

\* of two prefixes, the first in mixed case, one is removed
C16_Witness ==
    /\ ctor.uri = <<"Pac+", "pac+", "file:", "//", "proxy.pac">>
    /\ uri = <<"pac+", "file:", "//", "proxy.pac">>
    /\ done.pc = "done"

\* the first candidate of c's PAC result is a PROXY or an HTTPS directive
HasProxyDirective(c) ==
    /\ HasCandidate(c)
    /\ TypeToken(String(c.proxy)) \in {<<"PROXY">>, <<"HTTPS">>}

\* C17: for a PROXY or HTTPS directive the kind of connector depends on the
\* directive's type alone: the same request with the other security flag
\* gets a connector of the same kind.
C17_KindByDirectiveAlone ==
    HasProxyDirective(done) =>
        done.out.kind = Dispatch(done.proxy, Flipped(done.req), opts).kind

\* C17, as amended: for a PROXY or HTTPS directive the kind of connector
\* depends on the destination's security flag alone, an HttpsProxyAgent for
\* a secure destination and an HttpProxyAgent otherwise, for either type of
\* directive; the same request with the other flag gets the connector of the
\* other kind with the same configuration.
C17_KindBySecurityFlag ==
    HasProxyDirective(done) =>
        LET other == Dispatch(done.proxy, Flipped(done.req), opts)
        IN  /\ done.out.kind = (IF done.req.secureEndpoint THEN "HttpsProxyAgent"
                                ELSE "HttpProxyAgent")
            /\ IsProxyConnector(other)
            /\ other.kind # done.out.kind
            /\ other.opts = done.out.opts

\* a PROXY directive for a secure destination: an HttpsProxyAgent that
\* reaches its proxy over http
C17_Witness ==
    /\ HasDirective(done, "PROXY")
    /\ done.req.secureEndpoint
    /\ done.out.kind = "HttpsProxyAgent"
    /\ done.out.opts["protocol"] = Str(<<"http", ":">>)

\* C18: in every state, with loads overlapping or not, this.resolverHash is
\* empty exactly when no resolver is cached, and otherwise it is the sha1
\* of the script the cached resolver was compiled from.
C18_FingerprintConsistent ==
    /\ resolverHash = <<>> <=> resolver = NoResolver
    /\ resolver # NoResolver => resolverHash = Sha1(resolver.code)

\* of two overlapping calls the second has replaced the resolver the first
\* compiled, the first being still suspended
C18_Witness ==
    /\ resolver = [id |-> 2, code |-> "B"]
    /\ resolverHash = Sha1("B")
    /\ \E c \in calls : c.pc = "resolver" /\ c.fn = [id |-> 1, code |-> "A"]

\* loadResolver has returned to c a resolver for the script c fetched
Loaded(c) == c.fetched = "bytes" /\ c.fn # NoResolver

\* c2 was made before the getUri of the earlier call c1 had resolved
Overlapping(c1, c2) == c1.n < c2.n /\ c2.pre.cache.id < c1.rs.id

\* C19: when two calls overlap and fetch different scripts, then once both
\* loads have completed (and no further load is under way) this.resolver,
\* this.resolverHash and this.cache are those of the call made later.
C19_LaterFetchWins ==
    \A c1, c2 \in Calls :
        (/\ Overlapping(c1, c2)
         /\ Loaded(c1) /\ Loaded(c2)
         /\ c1.rs.body # c2.rs.body
         /\ \A c \in Calls : c.n <= c2.n /\ c.pc \in {"resolver", "done"}) =>
            /\ resolver = c2.fn
            /\ resolverHash = Sha1(c2.rs.body)
            /\ cache = c2.rs

\* call number n is suspended at an await
InFlight(n) == \E c \in calls : c.n = n

\* call number n has returned or thrown
Terminal(n) == n <= nreq /\ ~InFlight(n)

Failed(c) == c.out.kind = "throw"

\* C20: when every collaborator call returns or fails, every call of
\* callback ends (it is again and again found not suspended, and once ended
\* it stays ended); a call that has ended has either returned a socket or a
\* connector or thrown an error, and not both, a suspended call has done
\* neither; and a call that has ended keeps the outcome it had.
C20_ReachesTerminalState ==
    /\ \A n \in 1..MaxRequests : []<>~InFlight(n)
    /\ [](done.pc = "done" => (Connected(done) <=> ~Failed(done)))
    /\ [](\A c \in calls : ~Connected(c) /\ ~Failed(c))
    /\ [][/\ \A n \in 1..MaxRequests : Terminal(n) => Terminal(n)'
          /\ \A c \in calls : c \notin calls' =>
                 \/ \E d \in calls' : d.n = c.n
                 \/ done' = After(c) /\ done'.pc = "done"
          /\ (done.pc = "done" /\ done'.n = done.n) => done' = done]_vars

\* of two overlapping calls the second has ended connected and the first
\* has ended after it with an error
C20_Witness ==
    /\ nreq = 2 /\ calls = {}
    /\ done.n = 1 /\ Failed(done) /\ done.pre.cache = NoStream
    /\ cache.id = 2

\* how far a call of callback has got
Rank(pc) ==
    CASE pc = "getUri" -> 1
      [] pc = "getRawBody" -> 2
      [] pc = "resolver" -> 3
      [] pc = "done" -> 4
      [] OTHER -> 0

\* C21: no call of callback causes more than one fetch, one compilation,
\* one evaluation of the PAC function and one connection or connector,
\* however its steps end: the counts of each call stay at most one, a call
\* never goes back to an await it has passed, and the agent has handed out
\* no more streams and compiled no more resolvers than there were calls.
C21_NoRetry ==
    /\ [](\A c \in Calls :
            /\ c.stats.fetch = 1
            /\ c.stats.compile <= 1
            /\ c.stats.eval <= 1
            /\ c.stats.conn <= 1)
    /\ [](nstreams <= nreq /\ ncompiled <= nreq)
    /\ [][\A c \in calls :
            c \notin calls' => Rank(After(c).pc) > Rank(c.pc)]_vars

\* the second call has fetched, compiled, evaluated and connected, once each
C21_Witness ==
    /\ done.pc = "done" /\ done.n = 2
    /\ done.stats = [fetch |-> 1, compile |-> 1, eval |-> 1, conn |-> 1]
    /\ nstreams = 2 /\ ncompiled = 2

\* what kind of outcome a directive type stands for
OutcomeOfType(type, req) ==
    IF type = <<"DIRECT">>
    THEN {IF req.secureEndpoint THEN "tls.connect" ELSE "net.connect"}
    ELSE IF type = <<"SOCKS">> THEN {"SocksProxyAgent"}
    ELSE IF type \in {<<"PROXY">>, <<"HTTPS">>}
    THEN {"HttpProxyAgent", "HttpsProxyAgent"}
    ELSE {"throw"}

\* C22: a call that got a resolver has evaluated the PAC function once, on
\* the url of its own request, and a call that got none has not evaluated
\* it; the outcome of a call is the one its own PAC result stands for; and
\* the step in which a call acts on its PAC result leaves this.cache,
\* this.resolver and this.resolverHash as they were.
C22_NoDecisionCached ==
    /\ [](\A c \in Calls :
            /\ c.fn # NoResolver =>
                  /\ c.stats.eval = 1
                  /\ c.url = BuildUrl(c.req)
                  /\ c.url[1] = (IF c.req.secureEndpoint THEN "https:" ELSE "http:")
            /\ (c.fn = NoResolver /\ c.pc = "done") =>
                  c.stats.eval = 0 /\ c.proxy = NotReturned)
    /\ [](HasCandidate(done) =>
            /\ done.out = Dispatch(done.proxy, done.req, opts)
            /\ done.out.kind \in OutcomeOfType(TypeToken(String(done.proxy)),
                                               done.req))
    /\ [][\A c \in calls :
            (c.pc = "resolver" /\ c \notin calls') =>
                UNCHANGED <<cache, resolver, resolverHash>>]_vars

\* the second call is given the resolver the first one compiled, evaluates
\* it and acts on what it returned
C22_Witness ==
    /\ done.pc = "done" /\ done.n = 2
    /\ done.fn = [id |-> 1, code |-> "A"] /\ done.stats.compile = 0
    /\ done.stats.eval = 1
    /\ done.proxy = Str(<<"PROXY", WS, "127.0.0.1", ":", "9000", SEMI>>)
    /\ IsProxyConnector(done.out)
    /\ done.req.secureEndpoint

\* the PAC result of c is truthy and holds no candidate: nothing but white
\* space and semicolons
HasNoCandidate(c) ==
    /\ PacReturned(c)
    /\ c.proxy \notin FalsyValues
    /\ FirstCandidate(String(c.proxy)) = <<>>

\* the call ended as for DIRECT, or with the error of an unknown proxy type
Classified(c) ==
    \/ c.out = Returned(IF c.req.secureEndpoint THEN "tls.connect"
                         ELSE "net.connect",
                        <<c.req.host, ":", ToString(c.req.port)>>, NoOpts)
    \/ /\ c.out.kind = "throw"
       /\ Len(c.out.err) >= 1
       /\ c.out.err[1] = "Unknown proxy type: "

\* C23: a truthy PAC result without a non-empty candidate, such as " " or
\* ";", ends the call as DIRECT does or with 'Unknown proxy type', and with
\* no other error.
C23_EmptyCandidatesClassified ==
    HasNoCandidate(done) => Classified(done)

\* the first candidate of c's PAC result is a SOCKS, PROXY or HTTPS type
\* token with no argument after it
HasBareDirective(c) ==
    /\ HasCandidate(c)
    /\ TypeToken(String(c.proxy)) \in {<<"SOCKS">>, <<"PROXY">>, <<"HTTPS">>}
    /\ DirectiveArg(String(c.proxy)) = <<>>

\* C24: a SOCKS, PROXY or HTTPS directive without a host:port argument, such
\* as "PROXY" or "SOCKS;...", never yields a proxy connector: the call fails.
C24_BareDirectiveFails ==
    HasBareDirective(done) =>
        /\ done.out.kind = "throw"
        /\ done.out.kind \notin
              {"SocksProxyAgent", "HttpProxyAgent", "HttpsProxyAgent"}

====
